---- MODULE Spec2Model ----
(***************************************************************************)
(* Model of the changelog action (src/src/main.ts): run() and the helpers  *)
(* generateAISummary, convertToSlackFormat and groupPRsByLabels.           *)
(*                                                                         *)
(* Strings whose characters matter (labels, the grouping-labels input,     *)
(* ISO timestamps, decimal numbers, joined lists) are sequences of         *)
(* one-character strings.  Strings that are only compared for equality     *)
(* (fixed messages, generated summaries, tags) are TLA+ strings.           *)
(*                                                                         *)
(* Time is milliseconds since an epoch.  The calendar part of an ISO       *)
(* timestamp, "YYYY-MM-DDTHH:MM:SS", is a fixed-width field whose          *)
(* lexicographic order is the order of the seconds it denotes; it is       *)
(* modelled as "dTsssss": the day as one digit, 'T', and the second of the *)
(* day as five digits.  The hosting API writes timestamps without a        *)
(* fraction ("...SSZ"), Date.prototype.toISOString writes them with one    *)
(* ("...SS.mmmZ").                                                         *)
(***************************************************************************)
EXTENDS Integers, Sequences, FiniteSets, TLC

\* ------------------------------------------------------------------ bounds
\* longest list of closed pull requests the hosting API returns
MaxPRs == 2

\* ------------------------------------------------------- program constants
\* 7 * 24 * 60 * 60 * 1000
SevenDaysMs == 604800000

\* --------------------------------------------------------------- characters
Digits == <<"0", "1", "2", "3", "4", "5", "6", "7", "8", "9">>

\* UTF-16 code unit of a character, the order of JavaScript's string comparison
CharCode(c) ==
  CASE c = " " -> 32
    [] c = "," -> 44
    [] c = "-" -> 45
    [] c = "." -> 46
    [] c = "0" -> 48 [] c = "1" -> 49 [] c = "2" -> 50 [] c = "3" -> 51
    [] c = "4" -> 52 [] c = "5" -> 53 [] c = "6" -> 54 [] c = "7" -> 55
    [] c = "8" -> 56 [] c = "9" -> 57
    [] c = "T" -> 84
    [] c = "Z" -> 90
    [] OTHER -> 97

\* a <= b on JavaScript strings: lexicographic by code unit, a prefix first
RECURSIVE StrLeq(_, _)
StrLeq(a, b) ==
  IF a = <<>> THEN TRUE
  ELSE IF b = <<>> THEN FALSE
  ELSE IF CharCode(Head(a)) < CharCode(Head(b)) THEN TRUE
  ELSE IF CharCode(Head(a)) > CharCode(Head(b)) THEN FALSE
  ELSE StrLeq(Tail(a), Tail(b))

\* n as exactly w decimal digits
RECURSIVE Pad(_, _)
Pad(n, w) == IF w = 0 THEN <<>> ELSE Append(Pad(n \div 10, w - 1), Digits[(n % 10) + 1])

\* Number.prototype.toString of a non-negative integer
RECURSIVE NumToString(_)
NumToString(n) ==
  IF n < 10 THEN <<Digits[n + 1]>> ELSE Append(NumToString(n \div 10), Digits[(n % 10) + 1])

\* Boolean.prototype.toString
BoolToString(b) == IF b THEN "true" ELSE "false"

\* String.prototype.split for a one-character separator: the pieces between
\* the separators, so the empty string gives one empty piece
RECURSIVE Split(_, _)
Split(s, sep) ==
  IF s = <<>> THEN << <<>> >>
  ELSE LET rest == Split(Tail(s), sep)
       IN  IF Head(s) = sep THEN << <<>> >> \o rest
           ELSE << <<Head(s)>> \o Head(rest) >> \o Tail(rest)

\* Array.prototype.join
RECURSIVE Join(_, _)
Join(parts, sep) ==
  IF parts = <<>> THEN <<>>
  ELSE IF Len(parts) = 1 THEN parts[1]
  ELSE parts[1] \o <<sep>> \o Join(Tail(parts), sep)

\* String.prototype.trim (the only white space of the model is the blank)
RECURSIVE TrimStart(_)
TrimStart(s) == IF s # <<>> /\ Head(s) = " " THEN TrimStart(Tail(s)) ELSE s
RECURSIVE TrimEnd(_)
TrimEnd(s) ==
  IF s # <<>> /\ s[Len(s)] = " " THEN TrimEnd(SubSeq(s, 1, Len(s) - 1)) ELSE s
Trim(s) == TrimEnd(TrimStart(s))

\* Array.prototype.includes
Includes(s, x) == \E i \in 1..Len(s) : s[i] = x

\* ---------------------------------------------------------------- timestamps
\* the fixed-width calendar field of the second sec: day, 'T', second of the day
CalendarField(sec) == Pad(sec \div 86400, 1) \o <<"T">> \o Pad(sec % 86400, 5)

\* Date.prototype.toISOString of the instant ms
toISOString(ms) == CalendarField(ms \div 1000) \o <<".">> \o Pad(ms % 1000, 3) \o <<"Z">>

\* the hosting API's rendering of an instant of whole seconds
ApiTime(sec) == CalendarField(sec) \o <<"Z">>

\* the JavaScript null
null == <<"null">>

\* ------------------------------------------------------------------- labels
ui == <<"u", "i">>
api == <<"a", "p", "i">>
feature == <<"f", "e", "a", "t", "u", "r", "e">>

\* -------------------------------------------------------------- fixed texts
MissingInputsMessage == "Missing required inputs: github-token, gemini-api-key, or grouping-labels"
NoGroupingLabelMessage == "At least one grouping label must be provided"
UnknownErrorMessage == "An unknown error occurred"
NoChangesText == "No new changes were released in this period."
FailedSummaryText == "Failed to generate summary"
FailedAISummaryText == "Failed to generate AI summary"
FailedSlackSummaryText == "Failed to generate Slack summary"
UploadWarning == "Failed to upload artifact"

\* ------------------------------------------------------------------- inputs
\* values of the github-token and gemini-api-key inputs
TokenInputs == {"", "test-token"}

\* values of the grouping-labels input: "", " , ", "ui", "ui,api", " api, ,ui", "ui,ui"
GroupingLabelsInputs ==
  { <<>>,
    <<" ", ",", " ">>,
    ui,
    ui \o <<",">> \o api,
    <<" ">> \o api \o <<",", " ", ",">> \o ui,
    ui \o <<",">> \o ui }

\* values of the require-feature-label input
RequireFeatureInputs == {"true", "false"}

\* the instant of the run: a whole second, and half a second later
NowValues == {SevenDaysMs + 1000, SevenDaysMs + 1500}

\* answers of repos.getLatestRelease: a rejection, or a release
ReleaseResponses ==
  { [ok |-> FALSE, id |-> 0, tag_name |-> "", created_at |-> <<>>],
    [ok |-> TRUE, id |-> 1, tag_name |-> "v1.0.0", created_at |-> ApiTime(1)],
    [ok |-> TRUE, id |-> 0, tag_name |-> "v0.0.0", created_at |-> ApiTime(1)] }

\* merged_at and labels of the closed pull requests the hosting API can list:
\* never merged (null) or merged at a whole second, before (0), in (1) and
\* after (2) the second of the cutoff; the API lists a label once
PullRequestKinds ==
  { <<null, <<ui>>>>,
    <<ApiTime(0), <<ui, api>>>>,
    <<ApiTime(1), <<ui>>>>,
    <<ApiTime(1), <<api, feature>>>>,
    <<ApiTime(2), <<>>>>,
    <<ApiTime(2), <<feature>>>>,
    <<ApiTime(2), <<ui, api>>>>,
    <<ApiTime(2), <<api, feature, ui>>>> }

\* values a rejected promise or a throw carries: an Error, or something else
ThrownValues == { [isError |-> TRUE, message |-> "Request failed"],
                  [isError |-> FALSE, message |-> "not an Error"] }

\* answers of the generative endpoint to one request: a 2xx with a text, a 2xx
\* without candidates (or with an empty text), a non-2xx, a transport failure
GeminiResponses(text) ==
  { [kind |-> "ok", text |-> text],
    [kind |-> "ok", text |-> ""],
    [kind |-> "not_ok", text |-> ""],
    [kind |-> "network_error", text |-> ""] }

\* ------------------------------------------------ pure parts of run()
\* the validation without its test of the gemini-api-key
MissingRequiredInputsNoKey(githubToken, geminiApiKey, groupingLabelsInput) ==
  githubToken = "" \/ groupingLabelsInput = <<>>

\* the validation of the required inputs
MissingRequiredInputs(githubToken, geminiApiKey, groupingLabelsInput) ==
  githubToken = "" \/ geminiApiKey = "" \/ groupingLabelsInput = <<>>

\* groupingLabelsInput.split(',').map(trim).filter(non-empty)
ParseGroupingLabels(groupingLabelsInput) ==
  LET pieces == Split(groupingLabelsInput, ",")
      trimmed == [i \in 1..Len(pieces) |-> Trim(pieces[i])]
      NonEmpty(label) == Len(label) > 0
  IN  SelectSeq(trimmed, NonEmpty)

\* s.replace(/[:-]/g, '')
RECURSIVE RemoveSeparators(_)
RemoveSeparators(s) ==
  IF s = <<>> THEN <<>>
  ELSE IF Head(s) = ":" \/ Head(s) = "-" THEN RemoveSeparators(Tail(s))
  ELSE <<Head(s)>> \o RemoveSeparators(Tail(s))

\* s.replace(from, to) with a string pattern: the first occurrence only
RECURSIVE ReplaceFirst(_, _, _)
ReplaceFirst(s, from, to) ==
  IF s = <<>> THEN <<>>
  ELSE IF Head(s) = from THEN <<to>> \o Tail(s)
  ELSE <<Head(s)>> \o ReplaceFirst(Tail(s), from, to)

\* now.toISOString().split('T')[0]
ReleaseDateOf(nowMs) == Split(toISOString(nowMs), "T")[1]

\* now.toISOString().replace(/[:-]/g, '').replace('T', '-').split('.')[0]
ReleaseTimestampOf(nowMs) ==
  Split(ReplaceFirst(RemoveSeparators(toISOString(nowMs)), "T", "-"), ".")[1]

\* the artifact's name
ArtifactNameOf(releaseTimestamp) == <<"c", "h", "a", "n", "g", "e", "l", "o", "g", "-">> \o releaseTimestamp

\* the release lookup without its test of the release's id
ReleaseInfoOfAnyAnswer(resp) ==
  IF resp.ok
  THEN [exists |-> TRUE, tag |-> resp.tag_name, createdAt |-> resp.created_at]
  ELSE [exists |-> FALSE, tag |-> "", createdAt |-> <<>>]

\* what the release lookup leaves in hasPreviousRelease, previousTag and
\* previousReleaseDate
ReleaseInfoOf(resp) ==
  IF resp.ok /\ resp.id # 0
  THEN [exists |-> TRUE, tag |-> resp.tag_name, createdAt |-> resp.created_at]
  ELSE [exists |-> FALSE, tag |-> "", createdAt |-> <<>>]

\* the cutoff of the filter
SinceDateOf(hasPrev, prevDate, nowMs) ==
  IF hasPrev THEN prevDate ELSE toISOString(nowMs - SevenDaysMs)

\* the filter taking the feature label alone when it is required
KeepPRFeatureAlone(pr, since, groupLabels, requireFeature) ==
  IF pr.merged_at = null \/ StrLeq(pr.merged_at, since) THEN FALSE
  ELSE LET hasGroupingLabel == \E i \in 1..Len(groupLabels) : Includes(pr.labels, groupLabels[i])
       IN  IF requireFeature THEN Includes(pr.labels, feature)
           ELSE hasGroupingLabel

\* the predicate of allPRs.filter
KeepPR(pr, since, groupLabels, requireFeature) ==
  IF pr.merged_at = null \/ StrLeq(pr.merged_at, since) THEN FALSE
  ELSE LET hasGroupingLabel == \E i \in 1..Len(groupLabels) : Includes(pr.labels, groupLabels[i])
       IN  IF requireFeature THEN Includes(pr.labels, feature) /\ hasGroupingLabel
           ELSE hasGroupingLabel

\* the projection of allPRs.map; title, body, html_url and user are carried
\* along unread and are left out of the model
ProjectPR(pr) ==
  [number |-> pr.number,
   merged_at |-> IF pr.merged_at = null THEN <<>> ELSE pr.merged_at,
   labels |-> pr.labels]

\* allPRs.filter(...).map(...)
RelevantPRsOf(prs, since, groupLabels, requireFeature) ==
  LET Keep(pr) == KeepPR(pr, since, groupLabels, requireFeature)
      kept == SelectSeq(prs, Keep)
  IN  [i \in 1..Len(kept) |-> ProjectPR(kept[i])]

\* ----------------------------------------------------- groupPRsByLabels
\* A JavaScript Map in insertion order: a sequence of [name, prs] entries.
MapHas(m, key) == \E i \in 1..Len(m) : m[i].name = key

\* Map.prototype.set: a present key keeps its place
MapSet(m, key, value) ==
  IF MapHas(m, key)
  THEN [i \in 1..Len(m) |-> IF m[i].name = key THEN [name |-> key, prs |-> value] ELSE m[i]]
  ELSE Append(m, [name |-> key, prs |-> value])

\* groups.get(key)!.push(pr)
MapPush(m, key, pr) ==
  [i \in 1..Len(m) |-> IF m[i].name = key THEN [name |-> key, prs |-> Append(m[i].prs, pr)] ELSE m[i]]

\* groupingLabels.forEach(label => groups.set(label, []))
RECURSIVE InitGroups(_, _)
InitGroups(m, groupLabels) ==
  IF groupLabels = <<>> THEN m
  ELSE InitGroups(MapSet(m, Head(groupLabels), <<>>), Tail(groupLabels))

\* exclusive grouping: the pull request goes to the group of its first
\* grouping label only
RECURSIVE PushByLabelsFirstOnly(_, _, _)
PushByLabelsFirstOnly(m, pr, labels) ==
  IF labels = <<>> THEN m
  ELSE IF MapHas(m, Head(labels)) THEN MapPush(m, Head(labels), pr)
  ELSE PushByLabelsFirstOnly(m, pr, Tail(labels))

\* pr.labels.forEach(label => if (groups.has(label)) groups.get(label).push(pr))
RECURSIVE PushByLabels(_, _, _)
PushByLabels(m, pr, labels) ==
  IF labels = <<>> THEN m
  ELSE PushByLabels(IF MapHas(m, Head(labels)) THEN MapPush(m, Head(labels), pr) ELSE m,
                    pr, Tail(labels))

\* prs.forEach(pr => ...)
RECURSIVE PushPRs(_, _)
PushPRs(m, prs) ==
  IF prs = <<>> THEN m ELSE PushPRs(PushByLabels(m, Head(prs), Head(prs).labels), Tail(prs))

groupPRsByLabels(prs, groupLabels) == PushPRs(InitGroups(<<>>, groupLabels), prs)

\* ------------------------------------- generateAISummary, convertToSlackFormat
\* the early return of generateAISummary
GenerateShortCircuit(prs) == Len(prs) = 0

\* generateAISummary with the placeholder of the absent text for a failure
GenerateResultOnePlaceholder(resp) ==
  IF resp.kind = "ok" /\ resp.text # "" THEN resp.text ELSE FailedSummaryText

\* what generateAISummary returns for an answer of the endpoint
GenerateResult(resp) ==
  IF resp.kind = "ok"
  THEN (IF resp.text # "" THEN resp.text ELSE FailedSummaryText)
  ELSE FailedAISummaryText

\* convertToSlackFormat passing only the failure placeholder through
ConvertPassthroughFailureOnly(markdown) == markdown = FailedAISummaryText

\* the early return of convertToSlackFormat
ConvertPassthrough(markdown) ==
  markdown = NoChangesText \/ markdown = FailedAISummaryText

\* what convertToSlackFormat returns for an answer of the endpoint
ConvertResult(resp) ==
  IF resp.kind = "ok"
  THEN (IF resp.text # "" THEN resp.text ELSE FailedSlackSummaryText)
  ELSE FailedSlackSummaryText

\* the summary loop without its guard
GroupHasMembersUnguarded(prs) == TRUE

\* the guard of the summary loop: only a group with members is summarized
GroupHasMembers(prs) == Len(prs) > 0

\* the catch of run() without its test of the caught value's type
FailureMessageUntested(thrown) == thrown.message

\* the message of core.setFailed for a caught value
FailureMessage(thrown) == IF thrown.isError THEN thrown.message ELSE UnknownErrorMessage

\* groupedSummaries[key] = value on a JavaScript object whose keys are not
\* integer-like: insertion order, a present key keeps its place
ObjectSet(obj, key, value) ==
  IF \E i \in 1..Len(obj) : obj[i].name = key
  THEN [i \in 1..Len(obj) |-> IF obj[i].name = key THEN [name |-> key, summary |-> value] ELSE obj[i]]
  ELSE Append(obj, [name |-> key, summary |-> value])

\* labelGroups.map(g => g.name)
GroupNames(groups) == [i \in 1..Len(groups) |-> groups[i].name]

\* the names joined as in the log line, with ', '
LabelGroupsOutputSpaced(groups) ==
  Join([i \in 1..Len(groups) |-> IF i = 1 THEN groups[i].name ELSE <<" ">> \o groups[i].name], ",")

\* the value of the label-groups output
LabelGroupsOutput(groups) == Join(GroupNames(groups), ",")

\* the value of the total-prs output
TotalPRsOutput(prs) == NumToString(Len(prs))

\* the value of the has-content output
HasContentOutput(groups) == BoolToString(Len(groups) > 0)

\* the document written to grouped-changelog.json; generatedAt, the instant of
\* the write, is left out.  JSON.stringify and JSON.parse give back the
\* integers and strings of the document unchanged.
ArtifactData(relDate, relTimestamp, prs, groupLabels, groups) ==
  [metadata |-> [releaseDate |-> relDate,
                 releaseTimestamp |-> relTimestamp,
                 totalPRs |-> Len(prs),
                 groupingLabels |-> groupLabels],
   groups |-> groups]

\* ------------------------------------------------------------------- state
VARIABLES
  input,                \* core.getInput: the four inputs of the action
  now,                  \* the instant new Date() gives, in milliseconds
  pc,                   \* position of the run
  groupingLabels, requireFeatureLabel, releaseDate, releaseTimestamp,
  latestRelease,        \* the answers of repos.getLatestRelease so far
  hasPreviousRelease, previousTag, previousReleaseDate, sinceDate,
  allPRs, relevantPRs, prGroups,
  groupIdx,             \* position of the loop over prGroups
  labelGroups, groupedSummaries,
  args,                 \* arguments of the generateAISummary call under way
  markdownSummary, slackSummary,
  inFlight,             \* requests the generative endpoint has not answered
  outputs,              \* core.setOutput calls, in order: <<name, value>>
  failures,             \* core.setFailed calls, in order
  caught,               \* values the catch of run() has caught, in order
  warnings,             \* core.warning calls, in order
  calls,                \* calls made to the hosting API, endpoint and artifact store
  files,                \* documents written to grouped-changelog.json
  uploadResult          \* "none", "ok" or "failed"

configVars == <<input, now>>
localVars == <<groupingLabels, requireFeatureLabel, releaseDate, releaseTimestamp>>
releaseVars == <<latestRelease, hasPreviousRelease, previousTag, previousReleaseDate, sinceDate>>
prVars == <<allPRs, relevantPRs, prGroups>>
loopVars == <<groupIdx, labelGroups, groupedSummaries>>
summaryVars == <<args, markdownSummary, slackSummary, inFlight>>
effectVars == <<outputs, failures, caught, warnings, calls, files, uploadResult>>
vars == <<configVars, pc, localVars, releaseVars, prVars, loopVars, summaryVars, effectVars>>

\* an output that was set, and its (last) value
IsSet(name) == \E i \in 1..Len(outputs) : outputs[i][1] = name
Out(name) ==
  LET i == CHOOSE j \in 1..Len(outputs) :
             outputs[j][1] = name /\ \A k \in (j + 1)..Len(outputs) : outputs[k][1] # name
  IN  outputs[i][2]

\* lists of at most n elements of S
SeqsUpTo(S, n) == UNION { [1..k -> S] : k \in 0..n }

\* the lists pulls.list can answer with: closed pull requests with distinct
\* numbers
PullRequestLists ==
  { [i \in 1..Len(q) |-> [number |-> 100 + i, merged_at |-> q[i][1], labels |-> q[i][2]]] :
      q \in SeqsUpTo(PullRequestKinds, MaxPRs) }

\* what every local has before run() assigns it
InitLocals ==
  /\ groupingLabels = <<>> /\ requireFeatureLabel = FALSE
  /\ releaseDate = <<>> /\ releaseTimestamp = <<>>
  /\ latestRelease = <<>> /\ hasPreviousRelease = FALSE
  /\ previousTag = "" /\ previousReleaseDate = <<>> /\ sinceDate = <<>>
  /\ allPRs = <<>> /\ relevantPRs = <<>> /\ prGroups = <<>>
  /\ groupIdx = 1 /\ labelGroups = <<>> /\ groupedSummaries = <<>>
  /\ markdownSummary = "" /\ slackSummary = "" /\ inFlight = <<>>
  /\ outputs = <<>> /\ failures = <<>> /\ caught = <<>> /\ warnings = <<>>
  /\ calls = [getLatestRelease |-> 0, pullsList |-> 0, fetch |-> 0, uploadArtifact |-> 0]
  /\ files = <<>> /\ uploadResult = "none"

Init ==
  /\ input \in [githubToken : TokenInputs, geminiApiKey : TokenInputs,
                groupingLabels : GroupingLabelsInputs, requireFeatureLabel : RequireFeatureInputs]
  /\ now \in NowValues
  /\ pc = "start"
  /\ args = [prs |-> <<>>, groupName |-> <<>>]
  /\ InitLocals

\* the catch of run(): core.setFailed with the message of the caught value
Catch(thrown) ==
  /\ caught' = Append(caught, thrown)
  /\ failures' = Append(failures, FailureMessage(thrown))
  /\ pc' = "failed"

\* ------------------------------------------------------------------ run()
\* Lines 165-203: read and validate the inputs, parse the grouping labels,
\* take the current instant and set release-date and release-timestamp.
ReadConfig ==
  /\ pc = "start"
  /\ IF MissingRequiredInputs(input.githubToken, input.geminiApiKey, input.groupingLabels)
     THEN /\ Catch([isError |-> TRUE, message |-> MissingInputsMessage])
          /\ UNCHANGED <<localVars, outputs>>
     ELSE IF Len(ParseGroupingLabels(input.groupingLabels)) = 0
     THEN /\ Catch([isError |-> TRUE, message |-> NoGroupingLabelMessage])
          /\ UNCHANGED <<localVars, outputs>>
     ELSE /\ groupingLabels' = ParseGroupingLabels(input.groupingLabels)
          /\ requireFeatureLabel' = (input.requireFeatureLabel = "true")
          /\ releaseDate' = ReleaseDateOf(now)
          /\ releaseTimestamp' = ReleaseTimestampOf(now)
          /\ outputs' = outputs \o << <<"release-date", ReleaseDateOf(now)>>,
                                      <<"release-timestamp", ReleaseTimestampOf(now)>> >>
          /\ pc' = "locate"
          /\ UNCHANGED <<failures, caught>>
  /\ UNCHANGED <<configVars, releaseVars, prVars, loopVars, summaryVars,
                 warnings, calls, files, uploadResult>>

\* Lines 205-239: look the latest release up, set has-previous-release,
\* previous-tag and previous-release-date, and choose the cutoff.
LocateRelease ==
  /\ pc = "locate"
  /\ \E resp \in ReleaseResponses :
       LET info == ReleaseInfoOf(resp)
       IN  /\ latestRelease' = Append(latestRelease, resp)
           /\ hasPreviousRelease' = info.exists
           /\ previousTag' = info.tag
           /\ previousReleaseDate' = info.createdAt
           /\ sinceDate' = SinceDateOf(info.exists, info.createdAt, now)
           /\ outputs' = outputs \o << <<"has-previous-release", BoolToString(info.exists)>>,
                                       <<"previous-tag", info.tag>>,
                                       <<"previous-release-date", info.createdAt>> >>
  /\ calls' = [calls EXCEPT !.getLatestRelease = @ + 1]
  /\ pc' = "fetch"
  /\ UNCHANGED <<configVars, localVars, prVars, loopVars, summaryVars,
                 failures, caught, warnings, files, uploadResult>>

\* Lines 241-284: list the closed pull requests, filter and project them,
\* and group them by label.
FetchPRs ==
  /\ pc = "fetch"
  /\ \E prs \in PullRequestLists :
       /\ allPRs' = prs
       /\ relevantPRs' = RelevantPRsOf(prs, sinceDate, groupingLabels, requireFeatureLabel)
       /\ prGroups' = groupPRsByLabels(relevantPRs', groupingLabels)
  /\ groupIdx' = 1
  /\ labelGroups' = <<>>
  /\ groupedSummaries' = <<>>
  /\ calls' = [calls EXCEPT !.pullsList = @ + 1]
  /\ pc' = "loop"
  /\ UNCHANGED <<configVars, localVars, releaseVars, summaryVars,
                 outputs, failures, caught, warnings, files, uploadResult>>

\* Line 241: pulls.list rejects; the catch of run() reports it.
FetchPRsThrows ==
  /\ pc = "fetch"
  /\ \E thrown \in ThrownValues : Catch(thrown)
  /\ calls' = [calls EXCEPT !.pullsList = @ + 1]
  /\ UNCHANGED <<configVars, localVars, releaseVars, prVars, loopVars, summaryVars,
                 outputs, warnings, files, uploadResult>>

\* Lines 287-291: the next entry of prGroups; a group without members is
\* passed over, a group with members is handed to generateAISummary.
LoopNext ==
  /\ pc = "loop"
  /\ IF groupIdx > Len(prGroups)
     THEN /\ pc' = "outputs"
          /\ UNCHANGED <<groupIdx, args>>
     ELSE IF GroupHasMembers(prGroups[groupIdx].prs)
     THEN /\ args' = [prs |-> prGroups[groupIdx].prs, groupName |-> prGroups[groupIdx].name]
          /\ pc' = "gen_call"
          /\ UNCHANGED groupIdx
     ELSE /\ groupIdx' = groupIdx + 1
          /\ UNCHANGED <<pc, args>>
  /\ UNCHANGED <<configVars, localVars, releaseVars, prVars, labelGroups, groupedSummaries,
                 markdownSummary, slackSummary, inFlight, effectVars>>

\* a request to the generative endpoint under way: the stage that sent it,
\* what its prompt is about (the group of the markdown stage, the markdown
\* text of the chat-format stage) and the answer it will get
Request(stage, about, resp) ==
  [stage |-> stage, about |-> about, kind |-> resp.kind, text |-> resp.text]

\* Lines 57-81: generateAISummary returns the sentinel for no pull request,
\* and otherwise sends its request to the generative endpoint.
GenerateCall ==
  /\ pc = "gen_call"
  /\ IF GenerateShortCircuit(args.prs)
     THEN /\ markdownSummary' = NoChangesText
          /\ pc' = "conv_call"
          /\ UNCHANGED <<inFlight, calls>>
     ELSE /\ \E resp \in GeminiResponses("### Test Summary") :
               inFlight' = Append(inFlight, Request("markdown", args.groupName, resp))
          /\ calls' = [calls EXCEPT !.fetch = @ + 1]
          /\ pc' = "gen_wait"
          /\ UNCHANGED markdownSummary
  /\ UNCHANGED <<configVars, localVars, releaseVars, prVars, loopVars, args, slackSummary,
                 outputs, failures, caught, warnings, files, uploadResult>>

\* generateAISummary going on without waiting for the answer: the request
\* stays under way
GenerateReturnUnawaited ==
  /\ pc = "gen_wait"
  /\ markdownSummary' = GenerateResult(Head(inFlight))
  /\ warnings' = IF Head(inFlight).kind = "ok" THEN warnings
                 ELSE Append(warnings, FailedAISummaryText)
  /\ inFlight' = inFlight
  /\ pc' = "conv_call"
  /\ UNCHANGED <<configVars, localVars, releaseVars, prVars, loopVars, args, slackSummary,
                 outputs, failures, caught, calls, files, uploadResult>>

\* Lines 83-92: the endpoint answers the markdown request.
GenerateReturn ==
  /\ pc = "gen_wait"
  /\ markdownSummary' = GenerateResult(Head(inFlight))
  /\ warnings' = IF Head(inFlight).kind = "ok" THEN warnings
                 ELSE Append(warnings, FailedAISummaryText)
  /\ inFlight' = Tail(inFlight)
  /\ pc' = "conv_call"
  /\ UNCHANGED <<configVars, localVars, releaseVars, prVars, loopVars, args, slackSummary,
                 outputs, failures, caught, calls, files, uploadResult>>

\* Lines 98-121: convertToSlackFormat passes a placeholder through, and
\* otherwise sends its request to the generative endpoint.
ConvertCall ==
  /\ pc = "conv_call"
  /\ IF ConvertPassthrough(markdownSummary)
     THEN /\ slackSummary' = markdownSummary
          /\ pc' = "conv_done"
          /\ UNCHANGED <<inFlight, calls>>
     ELSE /\ \E resp \in GeminiResponses("*Test Summary*") :
               inFlight' = Append(inFlight, Request("slack", markdownSummary, resp))
          /\ calls' = [calls EXCEPT !.fetch = @ + 1]
          /\ pc' = "conv_wait"
          /\ UNCHANGED slackSummary
  /\ UNCHANGED <<configVars, localVars, releaseVars, prVars, loopVars, args, markdownSummary,
                 outputs, failures, caught, warnings, files, uploadResult>>

\* Lines 123-132: the endpoint answers the chat-format request.
ConvertReturn ==
  /\ pc = "conv_wait"
  /\ slackSummary' = ConvertResult(Head(inFlight))
  /\ warnings' = IF Head(inFlight).kind = "ok" THEN warnings
                 ELSE Append(warnings, FailedSlackSummaryText)
  /\ inFlight' = Tail(inFlight)
  /\ pc' = "conv_done"
  /\ UNCHANGED <<configVars, localVars, releaseVars, prVars, loopVars, args, markdownSummary,
                 outputs, failures, caught, calls, files, uploadResult>>

\* Lines 294-305: record the summaries of the group and go on.
LoopStore ==
  /\ pc = "conv_done"
  /\ LET groupSummary == [markdown |-> markdownSummary, slack |-> slackSummary]
     IN  /\ groupedSummaries' = ObjectSet(groupedSummaries, args.groupName, groupSummary)
         /\ labelGroups' = Append(labelGroups, [name |-> args.groupName, prs |-> args.prs,
                                                 summary |-> groupSummary])
  /\ groupIdx' = groupIdx + 1
  /\ pc' = "loop"
  /\ UNCHANGED <<configVars, localVars, releaseVars, prVars, summaryVars, effectVars>>

\* the output stage setting total-prs before label-groups
SetOutputsReordered ==
  /\ pc = "outputs"
  /\ outputs' = outputs \o << <<"grouped-summaries", groupedSummaries>>,
                              <<"total-prs", TotalPRsOutput(relevantPRs)>>,
                              <<"label-groups", LabelGroupsOutput(labelGroups)>>,
                              <<"has-content", HasContentOutput(labelGroups)>> >>
  /\ pc' = "write"
  /\ UNCHANGED <<configVars, localVars, releaseVars, prVars, loopVars, summaryVars,
                 failures, caught, warnings, calls, files, uploadResult>>

\* Lines 309-312: set grouped-summaries, label-groups, total-prs, has-content.
SetOutputs ==
  /\ pc = "outputs"
  /\ outputs' = outputs \o << <<"grouped-summaries", groupedSummaries>>,
                              <<"label-groups", LabelGroupsOutput(labelGroups)>>,
                              <<"total-prs", TotalPRsOutput(relevantPRs)>>,
                              <<"has-content", HasContentOutput(labelGroups)>> >>
  /\ pc' = "write"
  /\ UNCHANGED <<configVars, localVars, releaseVars, prVars, loopVars, summaryVars,
                 failures, caught, warnings, calls, files, uploadResult>>

\* Lines 315-336: build the artifact document and write it to the file.
WriteArtifact ==
  /\ pc = "write"
  /\ files' = Append(files, ArtifactData(releaseDate, releaseTimestamp, relevantPRs,
                                         groupingLabels, labelGroups))
  /\ pc' = "upload"
  /\ UNCHANGED <<configVars, localVars, releaseVars, prVars, loopVars, summaryVars,
                 outputs, failures, caught, warnings, calls, uploadResult>>

\* Lines 328-332: mkdirSync or writeFileSync throws; the catch of run()
\* reports it.
WriteArtifactThrows ==
  /\ pc = "write"
  /\ \E thrown \in ThrownValues : Catch(thrown)
  /\ UNCHANGED <<configVars, localVars, releaseVars, prVars, loopVars, summaryVars,
                 outputs, warnings, calls, files, uploadResult>>

\* the artifact's name also for a failed upload
UploadOutputAlwaysNamed(ok, relTimestamp) == ArtifactNameOf(relTimestamp)

\* what the upload's two outcomes leave in the artifact-name output
UploadOutput(ok, relTimestamp) == IF ok THEN ArtifactNameOf(relTimestamp) ELSE <<>>

\* Lines 338-352: upload the file; a failed upload is a warning and an
\* empty artifact-name.
UploadArtifact ==
  /\ pc = "upload"
  /\ \E ok \in BOOLEAN :
       /\ uploadResult' = IF ok THEN "ok" ELSE "failed"
       /\ outputs' = Append(outputs, <<"artifact-name", UploadOutput(ok, releaseTimestamp)>>)
       /\ warnings' = IF ok THEN warnings ELSE Append(warnings, UploadWarning)
  /\ calls' = [calls EXCEPT !.uploadArtifact = @ + 1]
  /\ pc' = "done"
  /\ UNCHANGED <<configVars, localVars, releaseVars, prVars, loopVars, summaryVars,
                 failures, caught, files>>

Next ==
  \/ ReadConfig
  \/ LocateRelease
  \/ FetchPRs
  \/ FetchPRsThrows
  \/ LoopNext
  \/ GenerateCall
  \/ GenerateReturn
  \/ ConvertCall
  \/ ConvertReturn
  \/ LoopStore
  \/ SetOutputs
  \/ WriteArtifact
  \/ WriteArtifactThrows
  \/ UploadArtifact

Spec == Init /\ [][Next]_vars

\* ------------------------------------------- the two helpers called directly
\* generateAISummary(prs, key, groupName) followed by convertToSlackFormat on
\* its result, for every list of projected pull requests, the empty one
\* included, and with and without a group name.
ProjectedPRLists ==
  { [i \in 1..Len(q) |-> ProjectPR([number |-> 100 + i, merged_at |-> q[i][1], labels |-> q[i][2]])] :
      q \in SeqsUpTo(PullRequestKinds, MaxPRs) }

SummaryInit ==
  /\ input = [githubToken |-> "test-token", geminiApiKey |-> "test-token",
              groupingLabels |-> ui, requireFeatureLabel |-> "false"]
  /\ now = SevenDaysMs + 1000
  /\ pc = "gen_call"
  /\ args \in [prs : ProjectedPRLists, groupName : {<<>>, ui, api}]
  /\ InitLocals

SummaryNext ==
  \/ GenerateCall
  \/ GenerateReturn
  \/ ConvertCall
  \/ ConvertReturn

SummarySpec == SummaryInit /\ [][SummaryNext]_vars

TypeOK == pc \in {"start", "locate", "fetch", "loop", "gen_call", "gen_wait", "conv_call",
                  "conv_wait", "conv_done", "outputs", "write", "upload", "done", "failed"}

\* =================================================================== claims
\* the number a string of decimal digits denotes
DigitValue(c) == CHOOSE d \in 0..9 : Digits[d + 1] = c
RECURSIVE ParseDecimal(_)
ParseDecimal(s) ==
  IF s = <<>> THEN 0 ELSE 10 * ParseDecimal(SubSeq(s, 1, Len(s) - 1)) + DigitValue(s[Len(s)])

\* the instant, in milliseconds, an ISO timestamp denotes (Date.parse)
InstantOf(s) ==
  LET day == ParseDecimal(SubSeq(s, 1, 1))
      sec == ParseDecimal(SubSeq(s, 3, 7))
      ms == IF s[8] = "." THEN ParseDecimal(SubSeq(s, 9, 11)) ELSE 0
  IN  (day * 86400 + sec) * 1000 + ms

\* pulls.list has answered and the list was filtered and grouped
Filtered == calls.pullsList = 1 /\ (pc = "failed" => IsSet("total-prs"))

\* the run has set the four outputs of the output stage
OutputStage == IsSet("has-content")

\* the filter as the specification words it, on instants
SpecKeeps(pr) ==
  /\ pr.merged_at # null
  /\ InstantOf(pr.merged_at) > InstantOf(sinceDate)
  /\ \E i \in 1..Len(groupingLabels) : Includes(pr.labels, groupingLabels[i])
  /\ requireFeatureLabel => Includes(pr.labels, feature)

\* positions of the filtered pull requests that carry the label
Members(label) == { i \in 1..Len(relevantPRs) : Includes(relevantPRs[i].labels, label) }

\* the configured grouping labels, each once, in the order of first mention
FirstMentions ==
  LET idx == { i \in 1..Len(groupingLabels) :
                 \A j \in 1..(i - 1) : groupingLabels[j] # groupingLabels[i] }
      RECURSIVE Pick(_)
      Pick(i) == IF i > Len(groupingLabels) THEN <<>>
                 ELSE (IF i \in idx THEN <<groupingLabels[i]>> ELSE <<>>) \o Pick(i + 1)
  IN  Pick(1)

\* the groups with one member or more, in configuration order
GroupsWithMembers ==
  LET HasMember(label) == Members(label) # {}
  IN  SelectSeq(FirstMentions, HasMember)

\* C1: a pull request is in the filtered result iff its merge timestamp is
\* present and strictly after the cutoff, it carries a grouping label, and
\* (when the feature label is required) the label 'feature'; the result keeps
\* the order of the API's list.
C1_FilterIffAfterCutoff ==
  Filtered =>
    relevantPRs = LET kept == SelectSeq(allPRs, SpecKeeps)
                  IN  [i \in 1..Len(kept) |-> ProjectPR(kept[i])]

\* C2: total-prs is the decimal string of the number of filtered pull
\* requests, has-content is 'true' exactly when some group has a member,
\* label-groups is the comma-joined list of the groups with members in
\* configuration order, and a group without members is in none of
\* label-groups, grouped-summaries and the artifact's groups.
C2_OutputsMatchGroups ==
  OutputStage =>
    /\ Out("total-prs") # <<>>
    /\ Out("total-prs")[1] = "0" => Len(Out("total-prs")) = 1
    /\ ParseDecimal(Out("total-prs")) = Len(relevantPRs)
    /\ Out("has-content") = (IF GroupsWithMembers # <<>> THEN "true" ELSE "false")
    /\ Out("label-groups") = Join(GroupsWithMembers, ",")
    /\ \A i \in 1..Len(groupingLabels) :
         Members(groupingLabels[i]) = {} =>
           /\ ~Includes(Split(Out("label-groups"), ","), groupingLabels[i])
           /\ \A j \in 1..Len(Out("grouped-summaries")) :
                Out("grouped-summaries")[j].name # groupingLabels[i]
           /\ \A f \in 1..Len(files) :
                ~Includes(GroupNames(files[f].groups), groupingLabels[i])

\* C2 witness: the outputs are set and the file is written in a run with one
\* group that has members and one that has none.
C2_Witness ==
  /\ OutputStage /\ files # <<>>
  /\ Len(prGroups) = 2 /\ Len(labelGroups) = 1
  /\ Out("has-content") = "true"

\* C3: with github-token, gemini-api-key or grouping-labels empty, the run
\* ends in setFailed with the 'Missing required inputs' message, sets no
\* output and calls neither the hosting API, the endpoint nor the artifact
\* store.
C3_MissingInputsFail ==
  (input.githubToken = "" \/ input.geminiApiKey = "" \/ input.groupingLabels = <<>>) =>
    /\ outputs = <<>>
    /\ calls = [getLatestRelease |-> 0, pullsList |-> 0, fetch |-> 0, uploadArtifact |-> 0]
    /\ inFlight = <<>> /\ files = <<>>
    /\ pc \in {"start", "failed"}
    /\ pc = "start" => failures = <<>>
    /\ pc = "failed" => failures = <<MissingInputsMessage>>

\* C3 witness: a run that failed for an empty gemini-api-key alone.
C3_Witness ==
  /\ pc = "failed" /\ failures = <<MissingInputsMessage>>
  /\ input.githubToken # "" /\ input.geminiApiKey = "" /\ input.groupingLabels # <<>>

\* how often the pull request of the given number is in the list
Occurrences(prs, number) == Cardinality({ j \in 1..Len(prs) : prs[j].number = number })

\* C4: for every filtered pull request and every grouping label L, the pull
\* request is in the group named L iff L is among its labels, and then once.
C4_GroupingNonExclusive ==
  Filtered =>
    \A l \in 1..Len(groupingLabels) :
      /\ Cardinality({ g \in 1..Len(prGroups) : prGroups[g].name = groupingLabels[l] }) = 1
      /\ \A g \in 1..Len(prGroups) :
           prGroups[g].name = groupingLabels[l] =>
             \A i \in 1..Len(relevantPRs) :
               Occurrences(prGroups[g].prs, relevantPRs[i].number)
                 = (IF Includes(relevantPRs[i].labels, groupingLabels[l]) THEN 1 ELSE 0)

\* C4 witness: one pull request is a member of two groups.
C4_Witness ==
  /\ Filtered /\ Len(prGroups) = 2
  /\ \E i \in 1..Len(relevantPRs) :
       /\ Occurrences(prGroups[1].prs, relevantPRs[i].number) = 1
       /\ Occurrences(prGroups[2].prs, relevantPRs[i].number) = 1

\* the run has ended
Ended == pc \in {"done", "failed"}

\* a markdown request of the run was answered with a non-2xx status or failed
\* in transport: generateAISummary logs its warning in exactly that case
MarkdownRequestFailed == Includes(warnings, FailedAISummaryText)

\* the outputs of the output stage and the one after them
LaterOutputsSet ==
  /\ IsSet("grouped-summaries") /\ IsSet("label-groups")
  /\ IsSet("total-prs") /\ IsSet("has-content")

C6_EmptyListSentinel ==
  (args.prs = <<>>) =>
    /\ calls.fetch = 0 /\ inFlight = <<>> /\ warnings = <<>>
    /\ pc \in {"gen_call", "conv_call", "conv_done"}
    /\ pc \in {"conv_call", "conv_done"} => markdownSummary = NoChangesText
    /\ pc = "conv_done" => slackSummary = NoChangesText

\* C6 witness: both helpers have returned for the empty list.
C6_Witness ==
  /\ args.prs = <<>> /\ pc = "conv_done"
  /\ markdownSummary = NoChangesText /\ slackSummary = NoChangesText

\* the release lookup has answered
Located == Len(latestRelease) = 1

\* the three outputs of the release lookup
ReleaseOutputsAre(hasPrev, tag, date) ==
  /\ Out("has-previous-release") = hasPrev
  /\ Out("previous-tag") = tag
  /\ Out("previous-release-date") = date

\* C7 as stated: a successful lookup gives 'true' and the release's tag and
\* creation time, a failed one 'false' and two empty strings, without
\* setFailed, and the run continues with the pull-request fetch.
C7_ReleaseLookupBySuccess ==
  Located =>
    /\ IsSet("has-previous-release") /\ IsSet("previous-tag") /\ IsSet("previous-release-date")
    /\ IF latestRelease[1].ok
       THEN ReleaseOutputsAre("true", latestRelease[1].tag_name, latestRelease[1].created_at)
       ELSE ReleaseOutputsAre("false", "", <<>>)
    /\ pc # "locate"
    /\ calls.pullsList = 0 => (pc = "fetch" /\ failures = <<>>)

\* C7 amended: a lookup that succeeds with a release whose id is not zero
\* gives 'true' and the release's tag and creation time; a lookup that fails,
\* or succeeds with a release without an id, gives 'false' and two empty
\* strings; in every case setFailed is not called for it and the run
\* continues with the pull-request fetch.
C7_ReleaseLookupById ==
  Located =>
    /\ IsSet("has-previous-release") /\ IsSet("previous-tag") /\ IsSet("previous-release-date")
    /\ IF latestRelease[1].ok /\ latestRelease[1].id # 0
       THEN ReleaseOutputsAre("true", latestRelease[1].tag_name, latestRelease[1].created_at)
       ELSE ReleaseOutputsAre("false", "", <<>>)
    /\ pc # "locate"
    /\ calls.pullsList = 0 => (pc = "fetch" /\ failures = <<>>)

\* C7 witness: the lookup failed and the run went on to list the pull
\* requests.
C7_Witness ==
  /\ Located /\ ~latestRelease[1].ok
  /\ Out("has-previous-release") = "false"
  /\ calls.pullsList = 1 /\ pc = "loop"

\* C8: the cutoff is the previous release's creation time when there is one
\* and otherwise the instant 7 days before the run's; a pull request is kept
\* only when its merge instant is strictly later than the cutoff.
C8_CutoffIsStrictInstant ==
  Filtered =>
    /\ InstantOf(sinceDate) = (IF hasPreviousRelease THEN InstantOf(previousReleaseDate)
                                ELSE now - SevenDaysMs)
    /\ \A i \in 1..Len(relevantPRs) :
         InstantOf(relevantPRs[i].merged_at) > InstantOf(sinceDate)

\* C9: a failed upload is a warning, an empty artifact-name and no setFailed;
\* a successful one sets artifact-name to 'changelog-' and the value of
\* release-timestamp; either way the outputs set before keep their values.
C9_UploadFailureIsSoft ==
  [][ pc = "upload" =>
        /\ SubSeq(outputs', 1, Len(outputs)) = outputs
        /\ Len(outputs') = Len(outputs) + 1
        /\ failures' = <<>> /\ pc' = "done"
        /\ uploadResult' \in {"ok", "failed"}
        /\ uploadResult' = "failed" =>
             /\ warnings' = Append(warnings, UploadWarning)
             /\ Out("artifact-name")' = <<>>
        /\ uploadResult' = "ok" =>
             /\ warnings' = warnings
             /\ Out("artifact-name")' =
                  <<"c", "h", "a", "n", "g", "e", "l", "o", "g", "-">> \o Out("release-timestamp")'
    ]_vars

\* C9 witness: a run whose upload failed.
C9_Witness ==
  /\ pc = "done" /\ uploadResult = "failed" /\ failures = <<>>
  /\ Out("artifact-name") = <<>> /\ Includes(warnings, UploadWarning)

\* C10 as stated: the written document's totalPRs is the number in total-prs
\* and the names of its groups are label-groups split on commas, also when
\* there is no group.
C10_ArtifactRoundTrip ==
  \A f \in 1..Len(files) :
    /\ ParseDecimal(Out("total-prs")) = files[f].metadata.totalPRs
    /\ Split(Out("label-groups"), ",") = GroupNames(files[f].groups)

\* C10 amended: the written document's totalPRs is the number in total-prs;
\* when the document has a group or more, the names of its groups are
\* label-groups split on commas, in order; when it has none, label-groups is
\* the empty string, which splits into one empty name.
C10_ArtifactRoundTripNonEmpty ==
  \A f \in 1..Len(files) :
    /\ ParseDecimal(Out("total-prs")) = files[f].metadata.totalPRs
    /\ IF files[f].groups # <<>>
       THEN Split(Out("label-groups"), ",") = GroupNames(files[f].groups)
       ELSE Out("label-groups") = <<>> /\ Split(Out("label-groups"), ",") = << <<>> >>

\* C10 witness: a written document with two groups.
C10_Witness ==
  /\ files # <<>> /\ Len(files[1].groups) = 2
  /\ Split(Out("label-groups"), ",") = GroupNames(files[1].groups)

\* the texts the markdown stage returns in place of a summary
MarkdownPlaceholders == {NoChangesText, FailedSummaryText, FailedAISummaryText}

\* C11: when the markdown stage returned the no-changes sentinel or one of
\* its failure placeholders, convertToSlackFormat makes no request and
\* returns its input unchanged.
C11_NoPlaceholderIsSent ==
  (pc \in {"conv_wait", "conv_done"} /\ markdownSummary \in MarkdownPlaceholders) =>
    /\ pc = "conv_done"
    /\ inFlight = <<>>
    /\ slackSummary = markdownSummary

\* C12: an exception that escapes a stage of run() ends the run: setFailed is
\* called once, with the exception's message or, for a value that is not an
\* Error, 'An unknown error occurred'; the outputs set before keep their
\* values, and afterwards no output is set and no external call is made.
C12_ExceptionAbortsRun ==
  [][ /\ (pc # "failed" /\ pc' = "failed") =>
           /\ pc \in {"start", "fetch", "write"}
           /\ Len(caught') = 1 /\ caught = <<>> /\ failures = <<>>
           /\ failures' = << IF caught'[1].isError THEN caught'[1].message
                              ELSE UnknownErrorMessage >>
           /\ outputs' = outputs
           /\ files' = files /\ inFlight' = inFlight /\ warnings' = warnings
           /\ calls'.getLatestRelease = calls.getLatestRelease
           /\ calls'.fetch = calls.fetch
           /\ calls'.uploadArtifact = calls.uploadArtifact
           /\ calls'.pullsList = calls.pullsList + (IF pc = "fetch" THEN 1 ELSE 0)
      /\ pc = "failed" => UNCHANGED vars
      /\ (failures' # <<>>) => pc' = "failed"
    ]_vars

\* C12 witness: the write of the artifact file threw a value that is not an
\* Error, after the outputs of the output stage were set.
C12_Witness ==
  /\ pc = "failed" /\ Len(caught) = 1 /\ ~caught[1].isError
  /\ failures = <<UnknownErrorMessage>>
  /\ IsSet("has-content") /\ ~IsSet("artifact-name")
  /\ files = <<>> /\ calls.uploadArtifact = 0

\* a group is being summarized
Summarizing == pc \in {"gen_call", "gen_wait", "conv_call", "conv_wait", "conv_done"}

\* requests the group being summarized has sent so far, at least and at most
CurrentRequestsMin ==
  IF pc \in {"gen_wait", "conv_call", "conv_done"} THEN 1 ELSE IF pc = "conv_wait" THEN 2 ELSE 0
CurrentRequestsMax ==
  IF pc \in {"gen_wait", "conv_call"} THEN 1 ELSE IF pc \in {"conv_wait", "conv_done"} THEN 2 ELSE 0

\* what C13 says of one state
OneRequestAtATime ==
  /\ Len(inFlight) <= 1
  /\ (inFlight # <<>>) <=> (pc \in {"gen_wait", "conv_wait"})
  /\ pc = "gen_wait" => (inFlight[1].stage = "markdown" /\ inFlight[1].about = args.groupName)
  /\ pc = "conv_wait" => (inFlight[1].stage = "slack" /\ inFlight[1].about = markdownSummary)
  /\ (Summarizing \/ pc \in {"loop", "outputs"}) =>
       /\ Len(labelGroups) <= Len(GroupsWithMembers)
       /\ GroupNames(labelGroups) = SubSeq(GroupsWithMembers, 1, Len(labelGroups))
       /\ Summarizing =>
            /\ Len(labelGroups) < Len(GroupsWithMembers)
            /\ args.groupName = GroupsWithMembers[Len(labelGroups) + 1]
       /\ calls.fetch >= Len(labelGroups) + CurrentRequestsMin
       /\ calls.fetch <= 2 * Len(labelGroups) + CurrentRequestsMax

\* C13: at most one request to the generative endpoint is under way; groups
\* are summarized one at a time in configuration order; the chat-format
\* request of a group is sent after its markdown request was answered and
\* asks about that answer's result; no request of a later group starts
\* before both stages of the earlier one are over; a group causes at most
\* two requests.
C13_SequentialRequests ==
  [][ /\ OneRequestAtATime'
      /\ (calls'.fetch # calls.fetch) =>
           /\ calls'.fetch = calls.fetch + 1
           /\ inFlight = <<>> /\ Len(inFlight') = 1
           /\ \/ pc = "gen_call" /\ pc' = "gen_wait"
              \/ pc = "conv_call" /\ pc' = "conv_wait"
    ]_vars

\* C13 witness: the chat-format request of the second group is under way
\* after both requests of the first group were answered.
C13_Witness ==
  /\ pc = "conv_wait" /\ Len(labelGroups) = 1 /\ Len(inFlight) = 1
  /\ calls.fetch = 4 /\ args.groupName = GroupsWithMembers[2]

\* position of the pull request of the given number in the filtered result
PositionOf(number) == CHOOSE i \in 1..Len(relevantPRs) : relevantPRs[i].number = number

\* the members of the group are filtered pull requests, in the order of the
\* filtered result
MembersAreFiltered(group) ==
  /\ \A a \in 1..Len(group.prs) :
       /\ \E i \in 1..Len(relevantPRs) : relevantPRs[i].number = group.prs[a].number
       /\ relevantPRs[PositionOf(group.prs[a].number)] = group.prs[a]
  /\ \A a, b \in 1..Len(group.prs) :
       a < b => PositionOf(group.prs[a].number) < PositionOf(group.prs[b].number)

\* C14: every filtered pull request is a member of an emitted group, every
\* member of an emitted group is a filtered pull request, in the order of
\* the filtered result; so has-content is 'true' exactly when total-prs is
\* not '0', and label-groups is empty exactly when total-prs is '0'.
C14_FilteredAreGrouped ==
  OutputStage =>
    /\ \A i \in 1..Len(relevantPRs) :
         \E g \in 1..Len(labelGroups) :
           Occurrences(labelGroups[g].prs, relevantPRs[i].number) >= 1
    /\ \A g \in 1..Len(labelGroups) : MembersAreFiltered(labelGroups[g])
    /\ \A f \in 1..Len(files) : files[f].groups = labelGroups
    /\ (Out("has-content") = "true") <=> (Out("total-prs") # <<"0">>)
    /\ (Out("has-content") = "false") <=> (Out("total-prs") = <<"0">>)
    /\ (Out("label-groups") = <<>>) <=> (Out("total-prs") = <<"0">>)

\* C14 witness: two filtered pull requests, both in one emitted group and
\* one of them also in a second.
C14_Witness ==
  /\ OutputStage /\ Len(relevantPRs) = 2 /\ Len(labelGroups) = 2
  /\ \E g, h \in 1..2 : Len(labelGroups[g].prs) = 2 /\ Len(labelGroups[h].prs) = 1
  /\ Out("total-prs") = <<"2">> /\ Out("has-content") = "true"

\* the outputs in the order run() sets them
OutputOrder ==
  <<"release-date", "release-timestamp", "has-previous-release", "previous-tag",
    "previous-release-date", "grouped-summaries", "label-groups", "total-prs",
    "has-content", "artifact-name">>

\* C15: a run that has ended either called setFailed once and never set
\* artifact-name, or never called setFailed and set artifact-name and the
\* nine outputs before it; outputs are set in one fixed order, each once.
C15_TwoOutcomes ==
  /\ Len(outputs) <= Len(OutputOrder)
  /\ [i \in 1..Len(outputs) |-> outputs[i][1]] = SubSeq(OutputOrder, 1, Len(outputs))
  /\ Len(failures) <= 1
  /\ (failures # <<>>) <=> (pc = "failed")
  /\ IsSet("artifact-name") <=> (pc = "done")
  /\ Ended =>
       \/ pc = "failed" /\ Len(failures) = 1 /\ ~IsSet("artifact-name")
       \/ /\ pc = "done" /\ failures = <<>>
          /\ \A i \in 1..Len(OutputOrder) : IsSet(OutputOrder[i])

\* C15 witness: a run that ended in setFailed with nine outputs set.
C15_Witness ==
  /\ pc = "failed" /\ Len(failures) = 1
  /\ Len(outputs) = 9 /\ IsSet("has-content") /\ ~IsSet("artifact-name")

====
